---- MODULE Spec2Model ----
(***************************************************************************)
(* Model of dashboard_benchmark.py: the code extractor clean_code, the     *)
(* verifier run_tests and the trial loop / report / cleanup of main().     *)
(* Text is a sequence of one-character strings.                            *)
(***************************************************************************)
EXTENDS Integers, Sequences, FiniteSets, Bags, TLC

\* ------------------------------------------------------------------ bounds
\* Number of pieces a model response is built from (clean_code inputs).
MaxPieces == 4
\* Number of pieces a test-runner output is built from (run_tests inputs).
MaxOutPieces == 3

\* ------------------------------------------------------- program constants
ITERATIONS == 3
PassThreshold == 3032
contenders == <<"Llama 3.3 (70B)", "Llama 3.1 (8B)", "Qwen 3 (32B)">>
TARGET_FILE == "fastapi/applications.py"

\* ------------------------------------------------------------ text helpers
NL == "\n"
Whitespace == {" ", "\n", "\t", "\r"}
\* the backquote character (the lexer has no string escape for it)
Backquote == "BQ"
FencePython == <<Backquote, Backquote, Backquote, "p", "y", "t", "h", "o", "n">>
Fence == <<Backquote, Backquote, Backquote>>
ThinkOpen == <<"<", "t", "h", "i", "n", "k", ">">>
ThinkClose == <<"<", "/", "t", "h", "i", "n", "k", ">">>
DefPrefix == <<"d", "e", "f", " ">>
DecoratorPrefix == <<"@">>

RECURSIVE Concat(_)
Concat(ss) == IF ss = <<>> THEN <<>> ELSE Head(ss) \o Concat(Tail(ss))

\* str.startswith at a 1-based position
StartsWithAt(s, i, p) ==
    /\ i + Len(p) - 1 <= Len(s)
    /\ SubSeq(s, i, i + Len(p) - 1) = p

startswith(s, p) == StartsWithAt(s, 1, p)

\* first position >= i where p occurs in s, 0 when there is none
RECURSIVE FindFrom(_, _, _)
FindFrom(s, p, i) ==
    IF i + Len(p) - 1 > Len(s) THEN 0
    ELSE IF StartsWithAt(s, i, p) THEN i
    ELSE FindFrom(s, p, i + 1)

\* re.sub(<literal p>, "", s): leftmost non-overlapping occurrences, one pass
RECURSIVE SubLiteralFrom(_, _, _)
SubLiteralFrom(s, p, i) ==
    IF i > Len(s) THEN <<>>
    ELSE IF StartsWithAt(s, i, p) THEN SubLiteralFrom(s, p, i + Len(p))
    ELSE <<s[i]>> \o SubLiteralFrom(s, p, i + 1)

re_sub_literal(p, s) == SubLiteralFrom(s, p, 1)

\* re.sub(r"<think>.*?</think>", "", s, flags=re.DOTALL): from each opening tag
\* to the nearest closing tag after it; an unclosed opening tag is kept
RECURSIVE SubThinkFrom(_, _)
SubThinkFrom(s, i) ==
    IF i > Len(s) THEN <<>>
    ELSE LET j == IF StartsWithAt(s, i, ThinkOpen)
                  THEN FindFrom(s, ThinkClose, i + Len(ThinkOpen))
                  ELSE 0
         IN  IF j # 0 THEN SubThinkFrom(s, j + Len(ThinkClose))
             ELSE <<s[i]>> \o SubThinkFrom(s, i + 1)

re_sub_think(s) == SubThinkFrom(s, 1)

\* str.split on the newline character
RECURSIVE split(_)
split(s) ==
    LET k == FindFrom(s, <<NL>>, 1)
    IN  IF k = 0 THEN <<s>>
        ELSE <<SubSeq(s, 1, k - 1)>> \o split(SubSeq(s, k + 1, Len(s)))

\* join that puts nothing between the lines
RECURSIVE joinNoSeparator(_)
joinNoSeparator(lines) ==
    IF lines = <<>> THEN <<>> ELSE Head(lines) \o joinNoSeparator(Tail(lines))

\* newline.join(lines)
RECURSIVE join(_)
join(lines) ==
    IF lines = <<>> THEN <<>>
    ELSE IF Len(lines) = 1 THEN lines[1]
    ELSE lines[1] \o <<NL>> \o join(Tail(lines))

RECURSIVE lstrip(_)
lstrip(s) ==
    IF s # <<>> /\ Head(s) \in Whitespace THEN lstrip(Tail(s)) ELSE s

RECURSIVE rstrip(_)
rstrip(s) ==
    IF s # <<>> /\ s[Len(s)] \in Whitespace
    THEN rstrip(SubSeq(s, 1, Len(s) - 1))
    ELSE s

\* str.strip()
strip(s) == rstrip(lstrip(s))

\* the test of line 26
StartsFunction(line) ==
    \/ startswith(strip(line), DefPrefix)
    \/ startswith(strip(line), DecoratorPrefix)

\* clean_lines that misses the line the function starts on
RECURSIVE CollectLinesAfterStart(_, _)
CollectLinesAfterStart(lines, started) ==
    IF lines = <<>> THEN <<>>
    ELSE (IF started THEN <<Head(lines)>> ELSE <<>>)
             \o CollectLinesAfterStart(Tail(lines),
                                       started \/ StartsFunction(Head(lines)))

\* the loop of lines 23-28: clean_lines
RECURSIVE CollectLines(_, _)
CollectLines(lines, started) ==
    IF lines = <<>> THEN <<>>
    ELSE LET now == started \/ StartsFunction(Head(lines))
         IN  (IF now THEN <<Head(lines)>> ELSE <<>>)
                 \o CollectLines(Tail(lines), now)

StripMarkup(code) ==
    re_sub_think(re_sub_literal(Fence, re_sub_literal(FencePython, code)))

clean_code(code) ==
    LET stripped == StripMarkup(code)
        clean_lines == CollectLines(split(stripped), FALSE)
    IN  IF clean_lines # <<>>
        THEN <<NL>> \o join(clean_lines) \o <<NL>>
        ELSE <<NL>> \o strip(stripped) \o <<NL>>

\* --------------------------------------------------------------- run_tests
Digits == <<"0", "1", "2", "3", "4", "5", "6", "7", "8", "9">>
IsDigit(ch) == \E d \in 1..Len(Digits) : Digits[d] = ch
DigitValue(ch) == (CHOOSE d \in 1..Len(Digits) : Digits[d] = ch) - 1
PassedSuffix == <<" ", "p", "a", "s", "s", "e", "d">>

\* int(<decimal digits>)
RECURSIVE int(_)
int(ds) ==
    IF ds = <<>> THEN 0
    ELSE 10 * int(SubSeq(ds, 1, Len(ds) - 1)) + DigitValue(ds[Len(ds)])

\* end of the longest run of digits that starts at i (greedy \d+)
RECURSIVE DigitsEnd(_, _)
DigitsEnd(s, i) ==
    IF i + 1 <= Len(s) /\ IsDigit(s[i + 1]) THEN DigitsEnd(s, i + 1) ELSE i

\* re.search(r"(\d+) passed", s): group 1 of the leftmost match, or None
None == <<"None">>
RECURSIVE SearchPassedFrom(_, _)
SearchPassedFrom(s, i) ==
    IF i > Len(s) THEN None
    ELSE IF IsDigit(s[i]) /\ StartsWithAt(s, DigitsEnd(s, i) + 1, PassedSuffix)
    THEN SubSeq(s, i, DigitsEnd(s, i))
    ELSE SearchPassedFrom(s, i + 1)

re_search_passed(s) == SearchPassedFrom(s, 1)

\* lines 33-34
ParsePassed(stdout) ==
    LET match == re_search_passed(stdout)
    IN  IF match # None THEN int(match) ELSE 0

\* JSON documents as tagged records; Invalid is text json.loads rejects and
\* Raised the outcome of an expression that raised
Invalid == [kind |-> "invalid"]
Raised == [kind |-> "raised"]
JNull == [kind |-> "null"]
JList == [kind |-> "list"]
JInt(n) == [kind |-> "int", v |-> n]
JStr(t) == [kind |-> "str", v |-> t]
JObj(f) == [kind |-> "obj", items |-> f]
EmptyDict == JObj(<<>>)

\* json.loads
json_loads(text) == IF text.kind = "invalid" THEN Raised ELSE text

\* obj.get(key, default): only a dict has it
get(obj, key, default) ==
    IF obj.kind = "raised" THEN Raised
    ELSE IF obj.kind # "obj" THEN Raised
    ELSE IF key \in DOMAIN obj.items THEN obj.items[key]
    ELSE default

\* a + b of two JSON values: numbers add, strings concatenate, the rest raises
Plus(a, b) ==
    IF a.kind = "int" /\ b.kind = "int" THEN JInt(a.v + b.v)
    ELSE IF a.kind = "str" /\ b.kind = "str" THEN JStr(a.v \o b.v)
    ELSE IF a.kind = "list" /\ b.kind = "list" THEN JList
    ELSE Raised

\* lines 37-41 without the try: a raise reaches the caller
ParseSecurityUnguarded(stdout) ==
    Plus(get(get(get(json_loads(stdout), "metrics", EmptyDict),
                 "_totals", EmptyDict), "SEVERITY.HIGH", JInt(0)),
         get(get(get(json_loads(stdout), "metrics", EmptyDict),
                 "_totals", EmptyDict), "SEVERITY.MEDIUM", JInt(0)))

\* lines 37-41: the bare except turns every raise into the initial 0
ParseSecurity(stdout) ==
    LET metrics == get(get(json_loads(stdout), "metrics", EmptyDict),
                       "_totals", EmptyDict)
        sum == Plus(get(metrics, "SEVERITY.HIGH", JInt(0)),
                    get(metrics, "SEVERITY.MEDIUM", JInt(0)))
    IN  IF sum.kind = "raised" THEN JInt(0) ELSE sum

\* run_tests() on the two tools' outputs: (passed, security)
run_tests(test_out, scan_out) == <<ParsePassed(test_out), ParseSecurity(scan_out)>>

\* ------------------------------------------------------------ report values
\* decimal digits of a natural number
RECURSIVE str(_)
str(n) ==
    IF n < 10 THEN <<Digits[n + 1]>>
    ELSE str(n \div 10) \o <<Digits[(n % 10) + 1]>>

\* num / den rounded to the nearest integer, ties to even (float formatting)
RoundHalfEven(num, den) ==
    LET q == num \div den
        r == num % den
    IN  IF 2 * r > den THEN q + 1
        ELSE IF 2 * r < den THEN q
        ELSE IF q % 2 = 0 THEN q ELSE q + 1

\* line 165: f"{(success_count / ITERATIONS) * 100:.1f}%"
Consistency(successes) ==
    LET tenths == RoundHalfEven(successes * 1000, ITERATIONS)
    IN  str(tenths \div 10) \o <<".">> \o str(tenths % 10) \o <<"%">>

\* line 166: int(total_tokens / ITERATIONS)
AvgTokens(tokens) == tokens \div ITERATIONS

\* lines 163-168: the aggregate result of one candidate
AggregateResult(agent, successes, tokens, sec) ==
    [Agent |-> agent, Consistency |-> Consistency(successes),
     AvgTokens |-> AvgTokens(tokens), TotalSec |-> sec]

\* a report that loses the first result
generate_html_report_from_second(rs) ==
    [k \in 1..(Len(rs) - 1) |->
        <<rs[k + 1].Agent, rs[k + 1].Consistency, rs[k + 1].AvgTokens,
          rs[k + 1].TotalSec>>]

\* lines 100-108: one table row per result, in order
generate_html_report(rs) ==
    [k \in 1..Len(rs) |->
        <<rs[k].Agent, rs[k].Consistency, rs[k].AvgTokens, rs[k].TotalSec>>]

\* ------------------------------------------------------------- environment
\* committed content of the target file, and a working copy with local edits
Committed == <<"x", NL>>
LocalEdits == Committed \o <<"y", NL>>
\* git checkout -- TARGET_FILE
git_checkout(content) == Committed

ArtifactPaths == {"log.txt", "coverage", ".pytest_cache"}

\* open(TARGET_FILE, "a").write(code)
append(content, text) == content \o text

\* what the model API may answer: content and token usage (usage may be None)
FencedReply == FencePython \o <<NL>> \o DefPrefix \o <<"x", NL>> \o Fence
ThinkingReply == ThinkOpen \o <<"x">> \o ThinkClose \o <<NL, " ">> \o DecoratorPrefix
NoCompletion == [content |-> <<>>, usage |-> JNull]
Completions ==
    {[content |-> FencedReply, usage |-> JInt(50)],
     [content |-> ThinkingReply, usage |-> JNull]}

\* what the two tools may print during a trial
AllPassed == <<"3", "0", "3", "2">> \o PassedSuffix
OneFailed == <<"1", " ", "f", "a", "i", "l", "e", "d", ",", " ">>
                 \o <<"3", "0", "3", "1">> \o PassedSuffix
Totals(high, medium) ==
    JObj([metrics |-> JObj([_totals |->
        JObj([h \in {"SEVERITY.HIGH", "SEVERITY.MEDIUM"} |->
                IF h = "SEVERITY.HIGH" THEN high ELSE medium])])])
\* pytest on the target file: the suite can pass only when the appended code
\* defines a function
pytest(content) ==
    IF FindFrom(content, DefPrefix, 1) # 0 THEN {AllPassed, OneFailed}
    ELSE {OneFailed}
\* bandit on the target file
bandit(content) == {Totals(JInt(1), JInt(0))}


\* ------------------------------------------------------------------- state
VARIABLES
    pc,             \* position in main() (or in the function under test)
    c,              \* index of the contender being tested
    i,              \* iteration of the inner loop
    success_count, total_tokens, total_sec,
    results,        \* aggregate results, in order
    file,           \* content of TARGET_FILE
    completion,     \* last answer of the model API
    trials,         \* bag of the outcomes of the current contender's trials
    dashboard,      \* rows of dashboard.html, empty while not written
    artifacts,      \* generated paths that exist
    exc,            \* exception propagating out of the try block
    res, res_sec,   \* outputs of the test runner and the scanner
    returned        \* value returned by clean_code or run_tests called alone

vars == <<pc, c, i, success_count, total_tokens, total_sec, results, file,
          completion, trials, dashboard, artifacts, exc, res, res_sec, returned>>

counters == <<success_count, total_tokens, total_sec>>
tools == <<res, res_sec, returned>>

Idle ==
    /\ c = 1 /\ i = 0
    /\ success_count = 0 /\ total_tokens = 0 /\ total_sec = 0
    /\ results = <<>>
    /\ trials = EmptyBag /\ dashboard = <<>>
    /\ exc = "none"

Init ==
    /\ pc = "start_candidate"
    /\ Idle
    /\ completion = NoCompletion
    /\ file \in {Committed, LocalEdits}
    /\ artifacts = {"log.txt", ".pytest_cache"}
    /\ res = <<>> /\ res_sec = Invalid /\ returned = <<>>

\* ------------------------------------------------------------------ main()
\* the outcome of one trial: status printed, and what the trial measured
Trial(status, p, sec, tok) ==
    [status |-> status, passed |-> p, security |-> sec, tokens |-> tok]

\* end of one pass through the inner loop body
NextIteration ==
    /\ i' = i + 1
    /\ pc' = IF i + 1 < ITERATIONS THEN "reset" ELSE "aggregate"

\* a handler that runs the failed iteration again
ExceptRetries(trial) ==
    /\ trials' = trials (+) SetToBag({trial})
    /\ i' = i
    /\ pc' = "reset"
    /\ UNCHANGED exc

\* lines 160-161: the per-trial handler prints the error; the loop goes on
Except(trial) ==
    /\ trials' = trials (+) SetToBag({trial})
    /\ NextIteration
    /\ UNCHANGED exc

\* line 159: the trial is printed as PASS or FAIL
Record(trial) ==
    /\ trials' = trials (+) SetToBag({trial})
    /\ NextIteration
    /\ UNCHANGED exc

\* lines 139-140 with the counters left as the previous contender had them
StartCandidateKeepsCounters ==
    /\ pc = "start_candidate"
    /\ i' = 0
    /\ pc' = "reset"
    /\ UNCHANGED <<c, counters, results, file, completion, trials, dashboard,
                   artifacts, exc, tools>>

\* lines 139-140
StartCandidate ==
    /\ pc = "start_candidate"
    /\ success_count' = 0 /\ total_tokens' = 0 /\ total_sec' = 0
    /\ i' = 0
    /\ pc' = "reset"
    /\ UNCHANGED <<c, results, file, completion, trials, dashboard, artifacts, exc,
                   tools>>

\* an exception raised in the loop outside the per-trial try (the print of
\* line 139, the subprocess call of line 144) goes straight to finally
LoopException ==
    /\ pc \in {"start_candidate", "reset"}
    /\ exc' = "loop"
    /\ pc' = "cleanup"
    /\ UNCHANGED <<c, i, counters, results, file, completion, trials, dashboard,
                   artifacts, tools>>

\* line 144 with a checkout that does nothing
ResetKeepsFile ==
    /\ pc = "reset"
    /\ pc' = "query"
    /\ UNCHANGED <<c, i, counters, results, file, completion, trials, dashboard,
                   artifacts, exc, tools>>

\* line 144
Reset ==
    /\ pc = "reset"
    /\ file' = git_checkout(file)
    /\ pc' = "query"
    /\ UNCHANGED <<c, i, counters, results, completion, trials, dashboard,
                   artifacts, exc, tools>>

\* lines 147-151, the API answers
Query ==
    /\ pc = "query"
    /\ completion' \in Completions
    /\ pc' = "mutate"
    /\ UNCHANGED <<c, i, counters, results, file, trials, dashboard, artifacts,
                   exc, tools>>

\* lines 147-151, the API call raises
QueryRaises ==
    /\ pc = "query"
    /\ Except(Trial("ERROR", 0, 0, 0))
    /\ UNCHANGED <<c, counters, results, file, completion, dashboard, artifacts,
                   tools>>

\* lines 152-153
Mutate ==
    /\ pc = "mutate"
    /\ file' = append(file, clean_code(completion.content))
    /\ pc' = "verify"
    /\ UNCHANGED <<c, i, counters, results, completion, trials, dashboard,
                   artifacts, exc, tools>>

\* lines 152-153, open() or write() raises before anything is appended
MutateRaises ==
    /\ pc = "mutate"
    /\ Except(Trial("ERROR", 0, 0, 0))
    /\ UNCHANGED <<c, counters, results, file, completion, dashboard, artifacts,
                   tools>>

\* lines 155-159: the statements run in order, and an exception at one of
\* them leaves the effect of the earlier ones
Verify ==
    /\ pc = "verify"
    /\ \E test_out \in pytest(file), scan_out \in bandit(file) :
        LET r == run_tests(test_out, scan_out)
            ok == r[1] >= PassThreshold
            credited == IF ok THEN success_count + 1 ELSE success_count
        IN  /\ success_count' = credited
            /\ IF r[2].kind # "int"
               THEN \* line 157 raises
                    /\ UNCHANGED <<total_sec, total_tokens>>
                    /\ Except(Trial("ERROR", r[1], 0, 0))
               ELSE /\ total_sec' = total_sec + r[2].v
                    /\ IF completion.usage.kind # "int"
                       THEN \* line 158 raises
                            /\ UNCHANGED total_tokens
                            /\ Except(Trial("ERROR", r[1], r[2].v, 0))
                       ELSE /\ total_tokens' = total_tokens + completion.usage.v
                            /\ Record(Trial(IF ok THEN "PASS" ELSE "FAIL",
                                            r[1], r[2].v, completion.usage.v))
    /\ UNCHANGED <<c, results, file, completion, dashboard, artifacts, tools>>

\* lines 163-168, and the step of the outer loop
Aggregate ==
    /\ pc = "aggregate"
    /\ results' = Append(results,
           AggregateResult(contenders[c], success_count, total_tokens, total_sec))
    /\ IF c < Len(contenders)
       THEN c' = c + 1 /\ pc' = "start_candidate"
       ELSE c' = c /\ pc' = "report"
    /\ trials' = EmptyBag
    /\ UNCHANGED <<i, counters, file, completion, dashboard, artifacts, exc, tools>>

\* line 171, the report is written
Report ==
    /\ pc = "report"
    /\ dashboard' = generate_html_report(results)
    /\ pc' = "cleanup"
    /\ UNCHANGED <<c, i, counters, results, file, completion, trials, artifacts,
                   exc, tools>>

\* line 171, writing dashboard.html raises
ReportRaises ==
    /\ pc = "report"
    /\ exc' = "report"
    /\ pc' = "cleanup"
    /\ UNCHANGED <<c, i, counters, results, file, completion, trials, dashboard,
                   artifacts, tools>>

\* lines 177-180 only: the artifacts go, the target file stays as it is
CleanupKeepsFile ==
    /\ pc = "cleanup"
    /\ artifacts' = artifacts \ ArtifactPaths
    /\ pc' = "done"
    /\ UNCHANGED <<c, i, counters, results, file, completion, trials, dashboard,
                   exc, tools>>

\* lines 173-180
Cleanup ==
    /\ pc = "cleanup"
    /\ file' = git_checkout(file)
    /\ artifacts' = artifacts \ ArtifactPaths
    /\ pc' = "done"
    /\ UNCHANGED <<c, i, counters, results, completion, trials, dashboard, exc,
                   tools>>

Next ==
    \/ StartCandidate
    \/ LoopException
    \/ Reset
    \/ Query
    \/ QueryRaises
    \/ Mutate
    \/ MutateRaises
    \/ Verify
    \/ Aggregate
    \/ Report
    \/ ReportRaises
    \/ Cleanup

Spec == Init /\ [][Next]_vars

\* ------------------------------------------- clean_code and run_tests alone
\* model responses: up to MaxPieces pieces, bare or wrapped in code fences
Pieces ==
    {FencePython, Fence, ThinkOpen, ThinkClose, DefPrefix, DecoratorPrefix,
     <<NL>>, <<" ">>, <<"x">>}
PieceTexts == {Concat(ps) : ps \in UNION {[1..n -> Pieces] : n \in 0..MaxPieces}}
Responses == PieceTexts \cup {FencePython \o t \o Fence : t \in PieceTexts}

\* test-runner outputs: up to MaxOutPieces pieces
OutPieces == {<<"1", "2">>, <<"3">>, PassedSuffix, <<" ">>, <<"x">>}
TestOutputs ==
    {Concat(ps) : ps \in UNION {[1..n -> OutPieces] : n \in 0..MaxOutPieces}}

\* scanner outputs: text that is not JSON, JSON that is no object, and objects
\* with "metrics" / "_totals" / the two severities absent or of any kind
Severities == {JInt(0), JInt(2), JStr(<<"a">>), JNull}
TotalsObjects ==
    {EmptyDict}
    \cup {JObj([h \in {"SEVERITY.HIGH"} |-> v]) : v \in Severities}
    \cup {JObj([h \in {"SEVERITY.MEDIUM"} |-> v]) : v \in Severities}
    \cup {JObj([h \in {"SEVERITY.HIGH", "SEVERITY.MEDIUM"} |->
                 IF h = "SEVERITY.HIGH" THEN v ELSE w]) :
            v \in Severities, w \in Severities}
MetricsObjects ==
    {EmptyDict} \cup {JObj([k \in {"_totals"} |-> t]) :
                        t \in TotalsObjects \cup {JNull, JList, JInt(1)}}
ScanOutputs ==
    {Invalid, JNull, JList, JInt(1), EmptyDict}
    \cup {JObj([k \in {"metrics"} |-> m]) :
            m \in MetricsObjects \cup {JNull, JList, JStr(<<"a">>)}}

InitCleanCode ==
    /\ pc = "clean_code"
    /\ Idle
    /\ completion \in {[content |-> t, usage |-> JNull] : t \in Responses}
    /\ file = Committed /\ artifacts = {}
    /\ res = <<>> /\ res_sec = Invalid /\ returned = <<>>

\* code = clean_code(completion.choices[0].message.content)
CleanCode ==
    /\ pc = "clean_code"
    /\ returned' = clean_code(completion.content)
    /\ pc' = "returned"
    /\ UNCHANGED <<c, i, counters, results, file, completion, trials, dashboard,
                   artifacts, exc, res, res_sec>>

SpecCleanCode == InitCleanCode /\ [][CleanCode]_vars

InitRunTests ==
    /\ pc = "run_tests"
    /\ Idle
    /\ completion = NoCompletion
    /\ file = Committed /\ artifacts = {}
    /\ res \in TestOutputs /\ res_sec \in ScanOutputs /\ returned = <<>>

\* passed, security = run_tests()
RunTests ==
    /\ pc = "run_tests"
    /\ returned' = run_tests(res, res_sec)
    /\ pc' = "returned"
    /\ UNCHANGED <<c, i, counters, results, file, completion, trials, dashboard,
                   artifacts, exc, res, res_sec>>

SpecRunTests == InitRunTests /\ [][RunTests]_vars

\* ---------------------------------------------------------------- helpers
Trials == BagCardinality(trials)
Snippet == clean_code(completion.content)
\* the first reset of the run has been done
FirstResetDone == c > 1 \/ i > 0 \/ pc \in {"query", "mutate", "verify"}
\* a trial of the current contender has just ended
TrialEnded == pc \in {"reset", "aggregate"} /\ i > 0

RECURSIVE SumOf(_)
SumOf(pairs) ==
    IF pairs = {} THEN 0
    ELSE LET p == CHOOSE q \in pairs : TRUE
         IN  p[2] + SumOf(pairs \ {p})

\* sum of Weight(e) over the trials of bag b, each counted as often as it occurs
Total(b, Weight(_)) ==
    SumOf({<<e, Weight(e) * CopiesIn(e, b)>> : e \in BagToSet(b)})

\* the step adds a trial that was printed as ERROR
ErrorStep ==
    \E e \in BagToSet(trials') :
        /\ e.status = "ERROR"
        /\ CopiesIn(e, trials') = CopiesIn(e, trials) + 1

\* ------------------------------------------------------------------ claims

\* C1: when main() has ended, by whichever path (normal end, exception in the
\* loop, exception from the report), the finally block has run: the target file
\* holds its committed content and none of the known artifacts is left.
C1_CleanupRestoresFile ==
    pc = "done" => file = Committed /\ artifacts \cap ArtifactPaths = {}

\* C1 witness: the run ended by an exception raised in the loop after a trial
\* had appended code and been verified.
C1_Witness == pc = "done" /\ exc = "loop" /\ total_sec > 0

\* C2 as stated: the file is in its committed state before every trial starts
\* and also once the trial has ended.
C2_RestoredBeforeAndAfter ==
    /\ pc = "query" => file = Committed
    /\ TrialEnded => file = Committed

\* C2 amended: the file is in its committed state when a trial starts and until
\* the trial appends; from the append on (also after the trial has ended) it
\* holds the committed content plus that one snippet, never more.
C2_RestoredBeforeTrial ==
    /\ pc \in {"query", "mutate"} => file = Committed
    /\ pc = "verify" => file = Committed \o Snippet
    /\ FirstResetDone => file \in {Committed, Committed \o Snippet}

\* C2 witness: a trial starts right after a trial that appended code.
C2_Witness == pc = "query" /\ i > 0 /\ total_sec > 0

\* C5 and C6: what clean_code keeps of a text
IsFenced(t) ==
    /\ Len(t) >= Len(FencePython) + Len(Fence)
    /\ startswith(t, FencePython)
    /\ SubSeq(t, Len(t) - Len(Fence) + 1, Len(t)) = Fence
FencedContent(t) == SubSeq(t, Len(FencePython) + 1, Len(t) - Len(Fence))
\* no backquote and no opening think tag
PlainText(t) ==
    /\ \A k \in 1..Len(t) : t[k] # Backquote
    /\ FindFrom(t, ThinkOpen, 1) = 0
\* positions where a line of t starts, and the line that starts there
LineStarts(t) == {k \in 1..(Len(t) + 1) : k = 1 \/ t[k - 1] = NL}
LineFrom(t, k) ==
    LET nl == FindFrom(t, <<NL>>, k)
    IN  SubSeq(t, k, IF nl = 0 THEN Len(t) ELSE nl - 1)
FunctionLines(t) == {k \in LineStarts(t) : StartsFunction(LineFrom(t, k))}
FirstFunctionLine(t) ==
    CHOOSE k \in FunctionLines(t) : \A m \in FunctionLines(t) : k <= m
\* from the first line that starts a function or decorator to the end,
\* untrimmed; the trimmed text when there is no such line
ExpectedBody(t) ==
    IF FunctionLines(t) = {} THEN strip(t)
    ELSE SubSeq(t, FirstFunctionLine(t), Len(t))

\* C5 as stated: for a response that is content wrapped in code fences,
\* clean_code returns a newline, the trimmed content, a newline.
C5_FencedIsTrimmed ==
    pc = "returned" /\ IsFenced(completion.content) =>
        returned = <<NL>> \o strip(FencedContent(completion.content)) \o <<NL>>

\* C5 amended: for a response that is content (without backquotes or think
\* tags) wrapped in code fences, clean_code returns a newline, then the content
\* from its first function or decorator line to its end with nothing trimmed,
\* or the trimmed content when it has no such line, then a newline.
C5_FencedBody ==
    pc = "returned" /\ IsFenced(completion.content)
                    /\ PlainText(FencedContent(completion.content)) =>
        returned = <<NL>> \o ExpectedBody(FencedContent(completion.content))
                          \o <<NL>>

\* C5 witness: a fenced response whose content has text before the function
\* line and a newline after it, so the result ends in two newlines.
C5_Witness ==
    /\ pc = "returned" /\ IsFenced(completion.content)
    /\ PlainText(FencedContent(completion.content))
    /\ FunctionLines(FencedContent(completion.content)) # {}
    /\ FirstFunctionLine(FencedContent(completion.content)) > 1
    /\ Len(returned) >= 2 /\ returned[Len(returned) - 1] = NL

\* a line that starts a function or decorator when only indentation is ignored
IndentedStart(line) ==
    \/ startswith(lstrip(line), DefPrefix)
    \/ startswith(lstrip(line), DecoratorPrefix)
IndentedLines(t) == {k \in LineStarts(t) : IndentedStart(LineFrom(t, k))}
\* the lines are those left once the markup is removed; the fallback is the
\* trimmed response itself
RawBody(t) ==
    LET text == StripMarkup(t)
    IN  IF IndentedLines(text) = {} THEN strip(t)
        ELSE SubSeq(text, CHOOSE k \in IndentedLines(text) :
                              \A m \in IndentedLines(text) : k <= m, Len(text))

\* C6 as stated: the result is a newline, then the lines of the response from
\* the first one that starts with def or @ (ignoring indentation), or the
\* trimmed raw response when there is none, then a newline.
C6_BodyOfRawText ==
    pc = "returned" =>
        returned = <<NL>> \o RawBody(completion.content) \o <<NL>>

\* C6 amended: the result begins and ends with a newline, and between them is
\* the response with fence markers and think blocks removed, taken from its
\* first line that (stripped of surrounding whitespace) starts with def or @,
\* or trimmed when no line does.
C6_BodyOfStrippedText ==
    pc = "returned" =>
        /\ Head(returned) = NL /\ returned[Len(returned)] = NL
        /\ returned = <<NL>> \o ExpectedBody(StripMarkup(completion.content))
                             \o <<NL>>

\* C6 witness: markup was removed, and a line before the function was dropped.
C6_Witness ==
    /\ pc = "returned"
    /\ StripMarkup(completion.content) # completion.content
    /\ FunctionLines(StripMarkup(completion.content)) # {}
    /\ FirstFunctionLine(StripMarkup(completion.content)) > 1

\* C7: what run_tests makes of the two outputs
HasPassedMatch(t) ==
    \E a \in 1..Len(t) : \E b \in a..Len(t) :
        /\ \A k \in a..b : IsDigit(t[k])
        /\ StartsWithAt(t, b + 1, PassedSuffix)
IsZero(v) == v.kind = "int" /\ v.v = 0
Field(obj, key) == IF key \in DOMAIN obj.items THEN obj.items[key] ELSE EmptyDict
Severity(obj, key) == IF key \in DOMAIN obj.items THEN obj.items[key] ELSE JInt(0)
TotalsOf(doc) == Field(Field(doc, "metrics"), "_totals")
\* the document bandit is expected to print
ExpectedShape(doc) ==
    /\ doc.kind = "obj" /\ "metrics" \in DOMAIN doc.items
    /\ doc.items["metrics"].kind = "obj"
    /\ "_totals" \in DOMAIN doc.items["metrics"].items
    /\ TotalsOf(doc).kind = "obj"
    /\ \A key \in {"SEVERITY.HIGH", "SEVERITY.MEDIUM"} :
          key \in DOMAIN TotalsOf(doc).items
              /\ TotalsOf(doc).items[key].kind = "int"
\* the document cannot be read as two values that add up
Unreadable(doc) ==
    \/ doc.kind # "obj"
    \/ Field(doc, "metrics").kind # "obj"
    \/ TotalsOf(doc).kind # "obj"
    \/ Severity(TotalsOf(doc), "SEVERITY.HIGH").kind
           # Severity(TotalsOf(doc), "SEVERITY.MEDIUM").kind
    \/ Severity(TotalsOf(doc), "SEVERITY.HIGH").kind \notin {"int", "str", "list"}

\* C7 as stated: without an N-passed match the passed count is 0, and scanner
\* output that is not JSON or not of the expected shape gives security 0.
C7_MalformedIsZero ==
    pc = "returned" =>
        /\ ~HasPassedMatch(res) => returned[1] = 0
        /\ ~ExpectedShape(res_sec) => IsZero(returned[2])

\* C7 amended: run_tests always returns a pair and no raise leaves it; without
\* an N-passed match the passed count is 0; scanner output that is not JSON, or
\* whose top level, metrics or _totals is no object, or whose two severities
\* (0 when absent) cannot be added, gives security 0.
C7_ParseFailuresAreZero ==
    pc = "returned" =>
        /\ Len(returned) = 2
        /\ returned[2].kind \in {"int", "str", "list"}
        /\ ~HasPassedMatch(res) => returned[1] = 0
        /\ Unreadable(res_sec) => IsZero(returned[2])

\* C7 witness: digits and the word passed without a match, and JSON whose
\* metrics is not an object.
C7_Witness ==
    /\ pc = "returned"
    /\ ~HasPassedMatch(res)
    /\ \E k \in 1..Len(res) : IsDigit(res[k])
    /\ FindFrom(res, PassedSuffix, 1) # 0
    /\ res_sec.kind = "obj" /\ Unreadable(res_sec)

\* the aggregate the specification describes: only trials that did not error
\* count towards successes, tokens and security findings
Counted(status) == IF status = "ERROR" THEN 0 ELSE 1
RefSuccess(t) == IF t.passed >= PassThreshold THEN Counted(t.status) ELSE 0
RefTokens(t) == t.tokens * Counted(t.status)
RefSecurity(t) == t.security * Counted(t.status)
ReferenceAggregate(agent, b) ==
    AggregateResult(agent, Total(b, RefSuccess), Total(b, RefTokens),
                    Total(b, RefSecurity))

\* C3: the aggregate recorded for a contender equals the reference computed
\* from its trials, errored trials contributing nothing.
C3_AggregateIsReference ==
    [][pc = "aggregate" =>
          results'[Len(results')] = ReferenceAggregate(contenders[c], trials)]_vars

\* C4: a trial that ends in the per-trial exception handler leaves
\* success_count, total_tokens and total_sec unchanged.
C4_ErrorLeavesCounters == [][ErrorStep => UNCHANGED counters]_vars

\* C8: dashboard.html is written at most once, by the report step only, after
\* every contender has run ITERATIONS trials and before cleanup; its rows are
\* the aggregate results, one per contender in the order of definition; a run
\* whose loop was aborted writes no report.
C8_RowsInOrder ==
    /\ Len(dashboard') = Len(contenders)
    /\ \A k \in 1..Len(contenders) :
          /\ results[k].Agent = contenders[k]
          /\ dashboard'[k] = <<results[k].Agent, results[k].Consistency,
                               results[k].AvgTokens, results[k].TotalSec>>
C8_ReportOnceAtEnd ==
    /\ [][dashboard' # dashboard =>
            /\ dashboard = <<>>
            /\ pc = "report" /\ pc' = "cleanup"
            /\ exc = "none"
            /\ Len(results) = Len(contenders)
            /\ C8_RowsInOrder]_vars
    /\ [][Len(results') > Len(results) => Trials = ITERATIONS]_vars
    /\ [](exc = "loop" => dashboard = <<>>)

\* C8 witness: the run ended with the report written.
C8_Witness == pc = "done" /\ dashboard # <<>>

\* steps main() still has to take, at most
PerContender == 4 * ITERATIONS + 2
AfterContender == (Len(contenders) - c) * PerContender + 3
Remaining ==
    CASE pc = "done" -> 0
      [] pc = "cleanup" -> 1
      [] pc = "report" -> 2
      [] pc = "aggregate" -> AfterContender
      [] pc = "verify" -> AfterContender + 4 * (ITERATIONS - i - 1) + 1
      [] pc = "mutate" -> AfterContender + 4 * (ITERATIONS - i - 1) + 2
      [] pc = "query" -> AfterContender + 4 * (ITERATIONS - i - 1) + 3
      [] pc = "reset" -> AfterContender + 4 * (ITERATIONS - i - 1) + 4
      [] pc = "start_candidate" -> AfterContender + 4 * ITERATIONS + 1

\* C9: a trial that errors is not retried and does not end the run: the loop
\* moves to the next iteration of the same contender; every trial starts from
\* a reset; each contender is aggregated after exactly ITERATIONS trials; every
\* step brings the end of main() nearer, and a run that was not aborted outside
\* the per-trial handler ends with the report attempted and cleanup done.
C9_ErrorsAreSkipped ==
    /\ [][/\ ErrorStep =>
                /\ c' = c /\ i' = i + 1 /\ exc' = "none"
                /\ pc' = IF i + 1 < ITERATIONS THEN "reset" ELSE "aggregate"
          /\ pc' = "query" => pc = "reset" /\ file' = Committed
          /\ Remaining' < Remaining]_vars
    /\ [](Remaining >= 0)
    /\ [](pc = "aggregate" => i = ITERATIONS /\ Trials = ITERATIONS)
    /\ [](pc = "done" /\ exc # "loop" =>
              /\ Len(results) = Len(contenders)
              /\ dashboard # <<>> \/ exc = "report"
              /\ file = Committed)

\* C9 witness: a run in which a trial errored has ended with the report written.
C9_Witness ==
    /\ pc = "done" /\ dashboard # <<>>
    /\ \E k \in 1..Len(results) : results[k].AvgTokens < 50

\* what one trial adds to the counters of its contender
OwnSuccess(t) == IF t.passed >= PassThreshold THEN 1 ELSE 0
OwnTokens(t) == t.tokens
OwnSecurity(t) == t.security

\* C10: the counters start from zero for every contender, so the aggregate
\* recorded for a contender is determined by its own trials alone, and the
\* aggregates recorded earlier stay as they are.
C10_OwnTrialsOnly ==
    /\ [][pc = "aggregate" =>
            results' = Append(results,
                AggregateResult(contenders[c], Total(trials, OwnSuccess),
                                Total(trials, OwnTokens),
                                Total(trials, OwnSecurity)))]_vars
    /\ [](pc = "reset" /\ i = 0 =>
              success_count = 0 /\ total_tokens = 0 /\ total_sec = 0)

\* C10 witness: two contenders with different trials got different aggregates.
C10_Witness ==
    /\ Len(results) >= 2
    /\ results[1].TotalSec > 0
    /\ results[2].TotalSec = 0

====
